---- MODULE Spec2Model ----
(***************************************************************************)
(* Letterboxd film-page annotation userscript ("Letterboxd Add Rating      *)
(* Icons"): the load listener, getData, getActors, the badge builders and  *)
(* the MutationObserver callbacks of addCrown and addIcon, together with   *)
(* the host page that renders the production-statistic list.               *)
(***************************************************************************)
EXTENDS Integers, Sequences, FiniteSets, TLC

(***************************************************************************)
(* Bounds of the model.                                                    *)
(***************************************************************************)
\* Largest rank handed to a badge builder in PureSpec.
MaxRank == 250
\* Longest dataset a response carries.
MaxLen == 2
\* Most DeferredMount instances (observers) created during one page load.
MaxInst == 2
\* Most div children the host page renders into the statistics list.
MaxHost == 3
\* Most nodes the host page adds in one task (one batch of records).
MaxNodes == 2
\* cast anchors on a page
MaxAnchors == 2

(***************************************************************************)
(* Program constants.                                                      *)
(***************************************************************************)
\* getData(1, ...) .. getData(28, ...)
NumRegistered == 28
\* parseInt(ranking / 100) + 1
PageSize == 100

VARIABLES
    posterAttr,   \* the host page's data-film-id: "absent" (no .film-poster
                  \* element), Null (no attribute) or its characters
    pass,         \* runs of the load listener: "none", "first", "second"
    id,           \* the film id the listener read (Undefined before it ran)
    fetch,        \* per category, the state of its fetch(...).then(...).then(...)
    instances,    \* the calls of addCrown / addIcon so far, in order: what
                  \* each built and whether its observer is still attached
    container,    \* whether .production-statistic-list is in the document
    children,     \* the children of that list, in document order
    flexWrap,     \* whether the list's style.flexWrap has been set
    call,         \* PureSpec: the call under test
    result,       \* PureSpec: what the call returned or built
    anchors,      \* the cast anchors of the page ('#tab-cast .cast-list a'),
                  \* in document order: the name each displays and the
                  \* icons appended to it
    castAnchors,  \* getActors' castAnchors: the anchors its
                  \* querySelectorAll returned (Undefined before the call)
    top1000Actors, \* getActors' array of the names pushed so far
    actorFetch,   \* the state of getActors' fetch(...).then(...).then(...)
    readyState,   \* list progress: document.readyState
    script,       \* list progress: whether the script ran, its listeners
    intervals,    \* list progress: the setInterval timers created
    links,        \* list progress: the list links of the page
    listsPath     \* list progress: whether the URL alone makes isListsPage true

pageVars == <<posterAttr, pass, id, fetch, instances, container, children, flexWrap>>
pureVars == <<call, result>>
actorVars == <<anchors, castAnchors, top1000Actors, actorFetch>>
progressVars == <<readyState, script, intervals, links, listsPath>>
vars == <<posterAttr, pass, id, fetch, instances, container, children, flexWrap,
          call, result, anchors, castAnchors, top1000Actors, actorFetch,
          readyState, script, intervals, links, listsPath>>

(***************************************************************************)
(* JavaScript values.  Numbers are wrapped so that NaN, undefined and null *)
(* are values of their own.                                                *)
(***************************************************************************)
Num(n) == [num |-> n]
NaN == [nan |-> TRUE]
Undefined == [undef |-> TRUE]
Null == [null |-> TRUE]

\* The === operator on the values above: NaN equals nothing, itself included.
StrictEq(a, b) == a # NaN /\ b # NaN /\ a = b

DigitChars == <<"0", "1", "2", "3", "4", "5", "6", "7", "8", "9">>
DigitChar(d) == DigitChars[d + 1]
IsDigit(c) == \E d \in 0..9 : DigitChar(d) = c
DigitValue(c) == CHOOSE d \in 0..9 : DigitChar(d) = c

\* The decimal digits of a natural number, most significant first.
RECURSIVE Digits(_)
Digits(n) == IF n < 10 THEN <<DigitChar(n)>>
             ELSE Digits(n \div 10) \o <<DigitChar(n % 10)>>

\* The characters of String(n / PageSize) for a natural number n: the
\* quotient is a double whose shortest decimal form has at most two
\* fraction digits, trailing zeros dropped ("1", "1.5", "0.07").
QuotientString(n) ==
    LET q == n \div PageSize
        m == n % PageSize
        t == m
    IN  IF m = 0 THEN Digits(q)
        ELSE IF t % 10 = 0 THEN Digits(q) \o <<".", DigitChar(t \div 10)>>
        ELSE Digits(q) \o <<".", DigitChar(t \div 10), DigitChar(t % 10)>>

\* A string value, as its characters.
Str(cs) == [chars |-> cs]

\* The characters of String(v) for the values getAttribute can return.
AttrString(v) == IF v = Null THEN <<"n", "u", "l", "l">> ELSE v.chars

\* The longest prefix of digits of a character sequence.
RECURSIVE DigitPrefix(_)
DigitPrefix(s) == IF s = <<>> \/ ~IsDigit(Head(s)) THEN <<>>
                  ELSE <<Head(s)>> \o DigitPrefix(Tail(s))

RECURSIVE DigitsValue(_)
DigitsValue(s) == IF s = <<>> THEN 0
                  ELSE DigitsValue(SubSeq(s, 1, Len(s) - 1)) * 10
                       + DigitValue(s[Len(s)])

\* parseInt(string): the integer its leading digits spell, NaN when there
\* are none; whatever follows the digits is ignored.
parseInt(s) == IF DigitPrefix(s) = <<>> THEN NaN
               ELSE Num(DigitsValue(DigitPrefix(s)))

\* Math.round in the place of parseInt.
pageRounded(ranking) == ((2 * ranking + PageSize) \div (2 * PageSize)) + 1

\* var page = parseInt(ranking / 100) + 1;
page(ranking) == parseInt(QuotientString(ranking)).num + 1

(***************************************************************************)
(* The registry: the display parameters getData passes to addIcon for      *)
(* each flag-icon category (type 1, the crown, has none).                  *)
(***************************************************************************)
AllTypes == 1..NumRegistered
\* if (type == 1) addCrown(i+1)
CrownType == 1

parameters(type) ==
    CASE type = 2 -> [list |-> "/el_duderinno/list/every-movie-with-more-than-100000-watched/page/",
                      icon |-> "https://raw.githubusercontent.com/frozenpandaman/letterboxd-userscripts/master/top-2000-flame.svg",
                      size |-> [height |-> "12", width |-> "12"]]
      [] type = 3 -> [list |-> "/prof_ratigan/list/top-5000-films-of-all-time-calculated/page/",
                      icon |-> "https://raw.githubusercontent.com/afchatfield/lb-list-to-json/main/Icons/camera_icon.png",
                      size |-> [height |-> "16", width |-> "16"]]
      [] type = 4 -> [list |-> "/el_duderinno/list/letterboxds-top-250-highest-rated-french-1/page/",
                      icon |-> "https://raw.githubusercontent.com/afchatfield/lb-list-to-json/main/Icons/france.png",
                      size |-> [height |-> "16", width |-> "16"]]
      [] type = 5 -> [list |-> "/el_duderinno/list/letterboxds-top-250-spanish-speaking-films/page/",
                      icon |-> "https://raw.githubusercontent.com/afchatfield/lb-list-to-json/main/Icons/spain.png",
                      size |-> [height |-> "16", width |-> "16"]]
      [] type = 6 -> [list |-> "/slinkyman/list/letterboxds-top-250-highest-rated-british/page/",
                      icon |-> "https://raw.githubusercontent.com/afchatfield/lb-list-to-json/main/Icons/united_kingdom.png",
                      size |-> [height |-> "16", width |-> "16"]]
      [] type = 7 -> [list |-> "/alexanderh/list/top-100-german-films-of-german-members/page/",
                      icon |-> "https://raw.githubusercontent.com/afchatfield/lb-list-to-json/main/Icons/germany.png",
                      size |-> [height |-> "16", width |-> "16"]]
      [] type = 8 -> [list |-> "/el_duderinno/list/letterboxds-top-100-italian-films-as-rated/page/",
                      icon |-> "https://raw.githubusercontent.com/afchatfield/lb-list-to-json/main/Icons/italy.png",
                      size |-> [height |-> "16", width |-> "16"]]
      [] type = 9 -> [list |-> "/el_duderinno/list/letterboxds-top-100-scandinavian-films-as/page/",
                      icon |-> "https://raw.githubusercontent.com/afchatfield/lb-list-to-json/main/Icons/scandinavia.png",
                      size |-> [height |-> "16", width |-> "16"]]
      [] type = 10 -> [list |-> "/el_duderinno/list/top-250-spanish-speaking-films-as-rated-by/page/",
                      icon |-> "https://raw.githubusercontent.com/afchatfield/lb-list-to-json/main/Icons/spain_circle.png",
                      size |-> [height |-> "14", width |-> "14"]]
      [] type = 11 -> [list |-> "/el_duderinno/list/top-250-japanese-films-as-rated-by-japanese/page/",
                      icon |-> "https://raw.githubusercontent.com/afchatfield/lb-list-to-json/main/Icons/japan.png",
                      size |-> [height |-> "16", width |-> "16"]]
      [] type = 12 -> [list |-> "/el_duderinno/list/letterboxds-top-100-korean-films-as-rated/page/",
                      icon |-> "https://raw.githubusercontent.com/afchatfield/lb-list-to-json/main/Icons/south-korea.png",
                      size |-> [height |-> "16", width |-> "16"]]
      [] type = 13 -> [list |-> "/el_duderinno/list/letterboxds-top-100-african-narrative-films/page/",
                      icon |-> "https://raw.githubusercontent.com/afchatfield/lb-list-to-json/main/Icons/africa_orange.png",
                      size |-> [height |-> "14", width |-> "14"]]
      [] type = 14 -> [list |-> "/el_duderinno/list/top-250-romance-films/page/",
                      icon |-> "https://raw.githubusercontent.com/afchatfield/lb-list-to-json/main/Icons/romance2.png",
                      size |-> [height |-> "14", width |-> "14"]]
      [] type = 15 -> [list |-> "/el_duderinno/list/top-250-comedy-films/page/",
                      icon |-> "https://raw.githubusercontent.com/afchatfield/lb-list-to-json/main/Icons/comedy1.png",
                      size |-> [height |-> "14", width |-> "14"]]
      [] type = 16 -> [list |-> "/el_duderinno/list/top-500-european-films-as-rated-by-european/page/",
                      icon |-> "https://raw.githubusercontent.com/afchatfield/lb-list-to-json/main/Icons/european-union.png",
                      size |-> [height |-> "16", width |-> "16"]]
      [] type = 17 -> [list |-> "/el_duderinno/list/letterboxds-top-250-south-american-films/page/",
                      icon |-> "https://raw.githubusercontent.com/afchatfield/lb-list-to-json/main/Icons/south-america.png",
                      size |-> [height |-> "16", width |-> "16"]]
      [] type = 18 -> [list |-> "/jack/list/official-top-250-documentary-films/page/",
                      icon |-> "https://raw.githubusercontent.com/afchatfield/lb-list-to-json/main/Icons/book.png",
                      size |-> [height |-> "14", width |-> "16"]]
      [] type = 19 -> [list |-> "/el_duderinno/list/top-1000-actors-biggest-film/page/",
                      icon |-> "https://raw.githubusercontent.com/afchatfield/lb-list-to-json/main/Icons/actor_red.png",
                      size |-> [height |-> "12", width |-> "12", style |-> "margin-top: 1px;"]]
      [] type = 20 -> [list |-> "/el_duderinno/list/top-100-chinese-films/page/",
                      icon |-> "https://raw.githubusercontent.com/afchatfield/lb-list-to-json/main/Icons/china.png",
                      size |-> [height |-> "16", width |-> "16"]]
      [] type = 21 -> [list |-> "/el_duderinno/list/letterboxds-top-250-indian-films-as-rated/page/",
                      icon |-> "https://raw.githubusercontent.com/afchatfield/lb-list-to-json/main/Icons/india.png",
                      size |-> [height |-> "16", width |-> "16"]]
      [] type = 22 -> [list |-> "/el_duderinno/list/top-100-australian-films-as-rated-by-australian/page/",
                      icon |-> "https://raw.githubusercontent.com/afchatfield/lb-list-to-json/main/Icons/australia.png",
                      size |-> [height |-> "16", width |-> "16"]]
      [] type = 23 -> [list |-> "/el_duderinno/list/top-100-south-east-asian-films/page/",
                      icon |-> "https://raw.githubusercontent.com/afchatfield/lb-list-to-json/main/Icons/south_east_asia.png",
                      size |-> [height |-> "16", width |-> "16"]]
      [] type = 24 -> [list |-> "/el_duderinno/list/top-200-middle-eastern-films/page/",
                      icon |-> "https://raw.githubusercontent.com/afchatfield/lb-list-to-json/main/Icons/middle_east.png",
                      size |-> [height |-> "16", width |-> "16"]]
      [] type = 25 -> [list |-> "/el_duderinno/list/letterboxds-top-100-russian-language-films/page/",
                      icon |-> "https://raw.githubusercontent.com/afchatfield/lb-list-to-json/main/Icons/russia.png",
                      size |-> [height |-> "16", width |-> "16"]]
      [] type = 26 -> [list |-> "/el_duderinno/list/letterboxds-top-50-new-zealand-films-as-rated/page/",
                      icon |-> "https://raw.githubusercontent.com/afchatfield/lb-list-to-json/main/Icons/new-zealand.png",
                      size |-> [height |-> "16", width |-> "16"]]
      [] type = 27 -> [list |-> "/el_duderinno/list/letterboxds-top-250-us-films-as-rated-by/page/",
                      icon |-> "https://raw.githubusercontent.com/afchatfield/lb-list-to-json/main/Icons/united-states.png",
                      size |-> [height |-> "16", width |-> "16"]]
      [] type = 28 -> [list |-> "/el_duderinno/list/letterboxds-top-100-canadian-films-as-rated/page/",
                      icon |-> "https://raw.githubusercontent.com/afchatfield/lb-list-to-json/main/Icons/canada.png",
                      size |-> [height |-> "16", width |-> "16"]]

\* getActors' own parameters.
actorParameters ==
    [list |-> "/el_duderinno/list/top-1000-actors-biggest-film/page/",
     icon |-> "https://raw.githubusercontent.com/afchatfield/lb-list-to-json/main/Icons/actor_red.png",
     size |-> [height |-> "12", width |-> "12", style |-> "margin-top: 1px;"]]

(***************************************************************************)
(* The badge builders: the element each one constructs, as a record of     *)
(* the attributes and children the code sets.                              *)
(***************************************************************************)
createTop250Element(ranking) ==
    [tag |-> "div",
     className |-> "production-statistic -top250",
     ariaLabel |-> <<ranking, "in the Letterboxd Top 2000">>,
     href |-> "/el_duderinno/list/letterboxds-top-2000-narrative-feature-films-1/page/"
              \o ToString(page(ranking)),
     title |-> <<ranking, "in the Letterboxd Top 250">>,
     text |-> ranking]

\* addIcon's element with the page, not the rank, as its text.
iconElementPageAsText(ranking, params) ==
    [tag |-> "div",
     className |-> "production-statistic",
     href |-> params.list \o ToString(page(ranking)),
     img |-> [src |-> params.icon, attributes |-> params.size],
     text |-> page(ranking)]

\* The element addIcon builds before it registers its observer.
iconElement(ranking, params) ==
    [tag |-> "div",
     className |-> "production-statistic",
     href |-> params.list \o ToString(page(ranking)),
     img |-> [src |-> params.icon, attributes |-> params.size],
     text |-> ranking]

\* The anchor addActorIcon appends to a cast anchor.
actorElement(ranking, params) ==
    [tag |-> "a",
     href |-> params.list \o ToString(page(ranking)),
     img |-> [src |-> params.icon, attributes |-> params.size],
     text |-> ranking]

(***************************************************************************)
(* Ranking datasets: the JSON arrays the fetches return.                   *)
(***************************************************************************)
FilmAttrs == {Str(<<"1", "0">>)}
DataKeys == {Num(10), Num(20)}
Entries == {[Date |-> k, id |-> Undefined] : k \in DataKeys}
           \cup {[Date |-> Undefined, id |-> k] : k \in DataKeys}
Datasets == UNION {[1..n -> Entries] : n \in 0..MaxLen}

\* A dataset keyed by id only: the films 10, 20 and 30, in ranking order.
IdKeyedDataset ==
    <<[Date |-> Undefined, id |-> Num(10)],
      [Date |-> Undefined, id |-> Num(20)],
      [Date |-> Undefined, id |-> Num(30)]>>

\* The test with a missing id field taken for a match.
isMatchOrNoId(item, filmId) ==
    StrictEq(item.Date, filmId) \/ item.id = Undefined

\* if (item.Date === id || item.id === id)
isMatchDateOnly(item, filmId) == StrictEq(item.Date, filmId)
isMatch(item, filmId) == StrictEq(item.Date, filmId) \/ StrictEq(item.id, filmId)

\* The index passed on as the rank, without the + 1.
callForMatchZeroBased(type, i) ==
    IF type = CrownType THEN <<[fn |-> "addCrown", ranking |-> i]>>
    ELSE IF type \in AllTypes
         THEN <<[fn |-> "addIcon", ranking |-> i,
                 parameters |-> parameters(type)]>>
    ELSE <<>>

\* What the body of the find callback does for the item at JavaScript
\* index i once it matched.
callForMatch(type, i) ==
    IF type = CrownType THEN <<[fn |-> "addCrown", ranking |-> i + 1]>>
    ELSE IF type \in AllTypes
         THEN <<[fn |-> "addIcon", ranking |-> i + 1,
                 parameters |-> parameters(type)]>>
    ELSE <<>>

\* out.find(function (item, i) {...}): the callback returns nothing, so find
\* visits every item, in order; the calls it makes, in order.  The item at
\* position p of the sequence has JavaScript index p - 1.
RECURSIVE findCalls(_, _, _, _)
findCalls(type, filmId, out, p) ==
    IF p > Len(out) THEN <<>>
    ELSE (IF isMatch(out[p], filmId) THEN callForMatch(type, p - 1) ELSE <<>>)
         \o findCalls(type, filmId, out, p + 1)

getDataCalls(type, filmId, out) == findCalls(type, filmId, out, 1)

\* What a fetch can come back with: a network error, or a response (of
\* success status or not: res.ok) whose body is no JSON, a JSON object, or
\* a JSON array.
Responses ==
    {[network |-> "error"]}
    \cup {[network |-> "ok", ok |-> o, json |-> j] :
            o \in BOOLEAN, j \in {"malformed", "object"}}
    \cup {[network |-> "ok", ok |-> o, json |-> "array", out |-> d] :
            o \in BOOLEAN, d \in Datasets}

\* fetch(json_link).then(res => res.json()).then((out) => {...}) on the
\* response resp: how the promise the chain ends in settles, and the calls
\* made.  fetch rejects on a network error; res.json() rejects on a body
\* that is no JSON; out.find is no function when out is no array.  The
\* status of the response is not looked at, and the chain has no catch: a
\* rejection is handled by nothing.
getData(type, filmId, resp) ==
    IF resp.network = "ok" /\ resp.json = "array"
    THEN [status |-> "fulfilled", calls |-> getDataCalls(type, filmId, resp.out)]
    ELSE [status |-> "rejected", calls |-> <<>>]

\* The element a call of addCrown or addIcon builds.
builtElement(c) ==
    IF c.fn = "addCrown" THEN createTop250Element(c.ranking)
    ELSE iconElement(c.ranking, c.parameters)

(***************************************************************************)
(* PureSpec: the lookup and the badge builders applied to drawn inputs.    *)
(***************************************************************************)
NoCall == [op |-> "none"]
NoResult == [done |-> FALSE]

PureCalls ==
    {[op |-> "getData", type |-> t, id |-> k, out |-> d] :
        t \in AllTypes, k \in DataKeys \cup {NaN},
        d \in Datasets \cup {IdKeyedDataset}}
    \cup {[op |-> "fetch", type |-> t, id |-> k, resp |-> r] :
            t \in AllTypes, k \in DataKeys \cup {NaN}, r \in Responses}
    \cup {[op |-> "createTop250Element", ranking |-> r] : r \in 1..MaxRank}
    \cup {[op |-> "addIcon", ranking |-> r, type |-> t] :
            r \in 1..MaxRank, t \in AllTypes \ {CrownType}}
    \cup {[op |-> "addActorIcon", ranking |-> r] : r \in 1..MaxRank}

\* The then-callback of getData on a parsed response.
CallGetData ==
    /\ call.op = "getData" /\ result = NoResult
    /\ LET cs == getDataCalls(call.type, call.id, call.out)
       IN  result' = [done |-> TRUE, calls |-> cs,
                      built |-> [n \in 1..Len(cs) |-> builtElement(cs[n])]]
    /\ UNCHANGED <<call, pageVars, actorVars, progressVars>>

\* getData from the fetch on: the whole chain on a response.
CallGetDataFetch ==
    /\ call.op = "fetch" /\ result = NoResult
    /\ LET r == getData(call.type, call.id, call.resp)
       IN  result' = [done |-> TRUE, status |-> r.status, calls |-> r.calls,
                      built |-> [n \in 1..Len(r.calls) |-> builtElement(r.calls[n])]]
    /\ UNCHANGED <<call, pageVars, actorVars, progressVars>>

CallCreateTop250Element ==
    /\ call.op = "createTop250Element" /\ result = NoResult
    /\ result' = [done |-> TRUE, element |-> createTop250Element(call.ranking)]
    /\ UNCHANGED <<call, pageVars, actorVars, progressVars>>

CallAddIcon ==
    /\ call.op = "addIcon" /\ result = NoResult
    /\ result' = [done |-> TRUE,
                  element |-> iconElement(call.ranking, parameters(call.type))]
    /\ UNCHANGED <<call, pageVars, actorVars, progressVars>>

CallAddActorIcon ==
    /\ call.op = "addActorIcon" /\ result = NoResult
    /\ result' = [done |-> TRUE,
                  element |-> actorElement(call.ranking, actorParameters)]
    /\ UNCHANGED <<call, pageVars, actorVars, progressVars>>

PureNext == CallGetData \/ CallGetDataFetch \/ CallCreateTop250Element \/ CallAddIcon \/ CallAddActorIcon

(***************************************************************************)
(* The document: the statistics list and its children.                     *)
(***************************************************************************)
\* The categories of the page model: the crown and two of the flag icons
\* (every type from 2 to NumRegistered runs the same code, addIcon, with
\* parameters of its own).
Types == {CrownType, 2, 3}

PlainClass == "production-statistic"
Top250Class == "production-statistic -top250"

\* The n-th div the host page itself renders into the list.
hostNode(n, cls) == [tag |-> "div", className |-> cls, by |-> "host", n |-> n]
\* The div built by the i-th call of addCrown / addIcon.
badgeNode(i, type) ==
    [tag |-> "div",
     className |-> IF type = CrownType THEN Top250Class ELSE PlainClass,
     by |-> "script", n |-> i]

Positions(kids, P(_)) == {p \in 1..Len(kids) : P(kids[p])}
\* icon_div.getElementsByTagName("div").length
divCount(kids) == LET isDiv(x) == x.tag = "div" IN Cardinality(Positions(kids, isDiv))
\* document.getElementsByClassName("-top250").length
top250Count(kids) ==
    LET isTop(x) == x.className = Top250Class IN Cardinality(Positions(kids, isTop))

RECURSIVE without(_, _)
without(kids, node) ==
    IF kids = <<>> THEN <<>>
    ELSE IF Head(kids) = node THEN without(Tail(kids), node)
    ELSE <<Head(kids)>> \o without(Tail(kids), node)

\* insertBefore(node, firstChild) in the place of appendChild.
appendChildFirst(kids, node) == <<node>> \o without(kids, node)

\* Appending a clone of the node: what is in the tree stays where it is.
appendChildClone(kids, node) == Append(kids, node)

\* parent.appendChild(node): a node already in the tree is moved, not copied.
appendChild(kids, node) == Append(without(kids, node), node)

\* The lists the host page can have rendered: its own divs, numbered in
\* order.  A film of the official top 250 has the host's own -top250
\* statistic (the one createTop250Element copies), as the first of them.
HostLists ==
    {k \in UNION {[1..n -> {PlainClass, Top250Class}] : n \in 0..MaxHost} :
        \A p \in DOMAIN k : k[p] = Top250Class => p = 1}
hostChildren(k) == [p \in DOMAIN k |-> hostNode(p, k[p])]
hostCount(kids) == LET isHost(x) == x.by = "host" IN Cardinality(Positions(kids, isHost))

NodeKinds == {"element", "text"}
NodeBatches == UNION {[1..n -> NodeKinds] : n \in 1..MaxNodes}

(***************************************************************************)
(* The MutationObserver callbacks.  A callback runs on the records queued  *)
(* for its observer; st carries what it reads and writes:                  *)
(*   container, children, flexWrap  the list in the document               *)
(*   attached                       FALSE once this.disconnect() ran       *)
(*   appends                        the calls of appendChild it has made   *)
(*   threw                          an exception ended the callback        *)
(***************************************************************************)
\* addIcon's loop body appending div_mov.cloneNode(true).
iconBodyAppendsClone(st, node) ==
    IF ~st.container THEN [st EXCEPT !.threw = TRUE]
    ELSE LET s1 == [st EXCEPT !.flexWrap = TRUE]
         IN  IF divCount(s1.children) > 1
             THEN [s1 EXCEPT !.children = Append(@, node),
                             !.appends = @ + 1,
                             !.attached = FALSE]
             ELSE s1

\* addIcon's loop body giving up, by this.disconnect(), when the list is
\* not in the document.
iconBodyGivesUp(st, node) ==
    IF ~st.container THEN [st EXCEPT !.attached = FALSE]
    ELSE LET s1 == [st EXCEPT !.flexWrap = TRUE]
         IN  IF divCount(s1.children) > 1
             THEN [s1 EXCEPT !.children = appendChild(@, node),
                             !.appends = @ + 1,
                             !.attached = FALSE]
             ELSE s1

\* addIcon's loop body with length > 0 as its test.
iconBodyReadyAtOne(st, node) ==
    IF ~st.container THEN [st EXCEPT !.threw = TRUE]
    ELSE LET s1 == [st EXCEPT !.flexWrap = TRUE]
         IN  IF divCount(s1.children) > 0
             THEN [s1 EXCEPT !.children = appendChild(@, node),
                             !.appends = @ + 1,
                             !.attached = FALSE]
             ELSE s1

\* The body of addIcon's loop for one added element node; node is div_mov.
iconBody(st, node) ==
    \* icon_div is undefined when the list is absent: icon_div.style throws
    IF ~st.container THEN [st EXCEPT !.threw = TRUE]
    ELSE LET s1 == [st EXCEPT !.flexWrap = TRUE]
         IN  IF divCount(s1.children) > 1
             THEN [s1 EXCEPT !.children = appendChild(@, node),
                             !.appends = @ + 1,
                             !.attached = FALSE]
             ELSE s1

\* addCrown's loop body with this.disconnect() after the if, not inside it.
crownBodyEagerDisconnect(st, node) ==
    IF ~st.container THEN [st EXCEPT !.threw = TRUE]
    ELSE LET s1 == IF divCount(st.children) > 1 /\ top250Count(st.children) = 0
                   THEN [st EXCEPT !.children = appendChild(@, node),
                                   !.appends = @ + 1]
                   ELSE st
         IN  [s1 EXCEPT !.attached = FALSE]

\* addCrown's loop body without the test of top250.length.
crownBodyNoGuard(st, node) ==
    IF ~st.container THEN [st EXCEPT !.threw = TRUE]
    ELSE IF divCount(st.children) > 1
         THEN [st EXCEPT !.children = appendChild(@, node),
                         !.appends = @ + 1,
                         !.attached = FALSE]
         ELSE st

\* addCrown's loop body without this.disconnect().
crownBodyNoDisconnect(st, node) ==
    IF ~st.container THEN [st EXCEPT !.threw = TRUE]
    ELSE IF divCount(st.children) > 1 /\ top250Count(st.children) = 0
         THEN [st EXCEPT !.children = appendChild(@, node),
                         !.appends = @ + 1]
         ELSE st

\* The body of addCrown's loop for one added element node; node is div_crown.
crownBody(st, node) ==
    \* icon_div.getElementsByTagName throws when the list is absent
    IF ~st.container THEN [st EXCEPT !.threw = TRUE]
    ELSE IF divCount(st.children) > 1
         THEN LET s1 == IF top250Count(st.children) = 0
                        THEN [st EXCEPT !.children = appendChild(@, node),
                                        !.appends = @ + 1]
                        ELSE st
              IN  [s1 EXCEPT !.attached = FALSE]
         ELSE st

\* The loops without the test of node.nodeType: the body runs for every
\* added node.
RECURSIVE observerCallbackAnyNode(_, _, _, _)
observerCallbackAnyNode(fn, node, nodes, st) ==
    IF nodes = <<>> \/ st.threw THEN st
    ELSE observerCallbackAnyNode(fn, node, Tail(nodes),
                                 IF fn = "addCrown" THEN crownBody(st, node)
                                 ELSE iconBody(st, node))

\* for (const {addedNodes} of mutations) for (const node of addedNodes):
\* nodes that are not elements are skipped; the loop has no break, so it
\* goes on after disconnect(); an exception ends it.
RECURSIVE observerCallback(_, _, _, _)
observerCallback(fn, node, nodes, st) ==
    IF nodes = <<>> \/ st.threw THEN st
    ELSE IF Head(nodes) # "element"
         THEN observerCallback(fn, node, Tail(nodes), st)
    ELSE observerCallback(fn, node, Tail(nodes),
                          IF fn = "addCrown" THEN crownBody(st, node)
                          ELSE iconBody(st, node))

(***************************************************************************)
(* Notification.  The mutations of one task are queued as records for      *)
(* every attached observer and delivered at the microtask checkpoint that  *)
(* ends the task, before any other task runs: observers are notified in    *)
(* the order they were created, each callback runs to its end, and every   *)
(* appendChild a callback makes is itself a mutation, queued for the       *)
(* observers still attached.  s is the document and the observers, q the   *)
(* added nodes queued for each observer.                                   *)
(***************************************************************************)
RECURSIVE elementRecords(_)
elementRecords(n) == IF n = 0 THEN <<>> ELSE <<"element">> \o elementRecords(n - 1)

toNotify(s, q) == {i \in DOMAIN q : s.instances[i].attached /\ q[i] # <<>>}

RECURSIVE notifyObservers(_, _)
notifyObservers(s, q) ==
    IF toNotify(s, q) = {} THEN s
    ELSE LET i == CHOOSE x \in toNotify(s, q) : \A y \in toNotify(s, q) : x <= y
             st == observerCallback(s.instances[i].fn,
                                    badgeNode(i, s.instances[i].type), q[i],
                                    [container |-> s.container,
                                     children |-> s.children,
                                     flexWrap |-> s.flexWrap,
                                     attached |-> TRUE, appends |-> 0,
                                     threw |-> FALSE])
             s2 == [container |-> s.container,
                    instances |-> [s.instances EXCEPT ![i].attached = st.attached],
                    children |-> st.children,
                    flexWrap |-> st.flexWrap]
             \* the callback took the records of i; disconnect() empties
             \* the queue of i again
             q2 == [j \in DOMAIN q |->
                      IF ~s2.instances[j].attached THEN <<>>
                      ELSE IF j = i THEN elementRecords(st.appends)
                      ELSE q[j] \o elementRecords(st.appends)]
         IN  notifyObservers(s2, q2)

\* The page after a task that left the list as (cont, kids) and added nodes
\* to the document.
afterMutation(cont, kids, nodes) ==
    notifyObservers([container |-> cont, instances |-> instances,
                     children |-> kids, flexWrap |-> flexWrap],
                    [i \in 1..Len(instances) |->
                        IF instances[i].attached THEN nodes ELSE <<>>])

(***************************************************************************)
(* One callback on one delivered batch, for PureSpec: the observer of the  *)
(* first call of addCrown or addIcon, the list as the host rendered it,    *)
(* and the added nodes of the batch (none when the records only remove).   *)
(***************************************************************************)
CallbackCalls ==
    {[op |-> "observerCallback", fn |-> f, nodes |-> ns,
      container |-> FALSE, children |-> <<>>] :
        f \in {"addCrown", "addIcon"}, ns \in NodeBatches \cup {<<>>}}
    \cup {[op |-> "observerCallback", fn |-> f, nodes |-> ns,
           container |-> TRUE, children |-> hostChildren(k)] :
            f \in {"addCrown", "addIcon"}, ns \in NodeBatches \cup {<<>>},
            k \in HostLists}

\* The element the observer under test would insert.
callbackNode(c) == badgeNode(1, IF c.fn = "addCrown" THEN CrownType ELSE 2)

CallObserverCallback ==
    /\ call.op = "observerCallback" /\ result = NoResult
    /\ result' = [done |-> TRUE,
                  st |-> observerCallback(call.fn, callbackNode(call), call.nodes,
                                          [container |-> call.container,
                                           children |-> call.children,
                                           flexWrap |-> FALSE,
                                           attached |-> TRUE, appends |-> 0,
                                           threw |-> FALSE])]
    /\ UNCHANGED <<call, pageVars, actorVars, progressVars>>

(***************************************************************************)
(* The page load.                                                          *)
(***************************************************************************)
\* A page without cast anchors on which getActors has not been called.
ActorIdle ==
    /\ anchors = <<>>
    /\ castAnchors = [called |-> FALSE]
    /\ top1000Actors = <<>>
    /\ actorFetch = "idle"

\* A page on which the list-progress script has not run.
ProgressIdle ==
    /\ readyState = "complete"
    /\ script = [run |-> FALSE, listeners |-> {}]
    /\ intervals = 0
    /\ links = <<>>
    /\ listsPath = FALSE

PosterAttrs == {[element |-> FALSE]}
               \cup {[element |-> TRUE, attr |-> a] : a \in {Null} \cup FilmAttrs}

Init ==
    /\ posterAttr \in PosterAttrs
    /\ pass = "none"
    /\ id = Undefined
    /\ fetch = [t \in Types |-> "idle"]
    /\ instances = <<>>
    /\ \/ container = FALSE /\ children = <<>>
       \/ container = TRUE /\ \E k \in HostLists : children = hostChildren(k)
    /\ flexWrap = FALSE
    /\ call = NoCall
    /\ result = NoResult
    /\ ActorIdle /\ ProgressIdle

\* The body of the load listener: it reads the film id and calls getData
\* for every category; every getData starts one fetch.  With no
\* .film-poster element the first line throws and nothing is fetched.
listenerBody ==
    IF posterAttr.element
    THEN /\ id' = parseInt(AttrString(posterAttr.attr))
         /\ fetch' = [t \in Types |-> "inflight"]
    ELSE UNCHANGED <<id, fetch>>

\* window.addEventListener('load', ...): the load event of the page.
loadListener ==
    /\ pass = "none"
    /\ pass' = "first"
    /\ listenerBody
    /\ UNCHANGED <<posterAttr, instances, container, children, flexWrap, pureVars, actorVars, progressVars>>

\* addCrown / addIcon: the element is built and
\* new MutationObserver(...).observe(document, {childList, subtree}) runs.
newObserver(c, type) ==
    [fn |-> c.fn, type |-> type, ranking |-> c.ranking, pass |-> pass,
     attached |-> TRUE]

\* The chains joined, as by Promise.all: after the failure of one no
\* other goes on.
getDataSettlesTogether(t, resp) ==
    /\ fetch[t] = "inflight"
    /\ \A u \in Types : fetch[u] # "rejected"
    /\ LET r == getData(t, id, resp)
       IN  /\ Len(instances) + Len(r.calls) <= MaxInst
           /\ instances' = instances
                            \o [n \in 1..Len(r.calls) |-> newObserver(r.calls[n], t)]
           /\ fetch' = [fetch EXCEPT ![t] = r.status]
    /\ UNCHANGED <<posterAttr, pass, id, container, children, flexWrap, pureVars, actorVars, progressVars>>

\* fetch(json_link).then(res => res.json()).then(out => out.find(...)):
\* a rejected fetch or json() leaves the chain rejected; a value that is no
\* array has no find; for an array every match calls addCrown or addIcon.
getDataSettles(t, resp) ==
    /\ fetch[t] = "inflight"
    /\ LET r == getData(t, id, resp)
       IN  /\ Len(instances) + Len(r.calls) <= MaxInst
           /\ instances' = instances
                            \o [n \in 1..Len(r.calls) |-> newObserver(r.calls[n], t)]
           /\ fetch' = [fetch EXCEPT ![t] = r.status]
    /\ UNCHANGED <<posterAttr, pass, id, container, children, flexWrap, pureVars, actorVars, progressVars>>

(***************************************************************************)
(* The host page: it renders the list and its children on its own          *)
(* schedule, and mutates the rest of the document.  Each action is one     *)
(* task of the host page followed by the notification of the observers.    *)
(***************************************************************************)
becomes(s) ==
    /\ container' = s.container
    /\ children' = s.children
    /\ flexWrap' = s.flexWrap
    /\ instances' = s.instances

hostRendersList(k) ==
    /\ ~container
    /\ becomes(afterMutation(TRUE, hostChildren(k), <<"element">>))
    /\ UNCHANGED <<posterAttr, pass, id, fetch, pureVars, actorVars, progressVars>>

hostAppendsChild(cls) ==
    /\ container
    /\ hostCount(children) < MaxHost
    /\ cls = Top250Class => hostCount(children) = 0
    /\ becomes(afterMutation(TRUE,
                             Append(children, hostNode(hostCount(children) + 1, cls)),
                             <<"element">>))
    /\ UNCHANGED <<posterAttr, pass, id, fetch, pureVars, actorVars, progressVars>>

hostMutatesElsewhere(nodes) ==
    /\ \E i \in 1..Len(instances) : instances[i].attached
    /\ becomes(afterMutation(container, children, nodes))
    /\ UNCHANGED <<posterAttr, pass, id, fetch, pureVars, actorVars, progressVars>>

Next ==
    \/ loadListener
    \/ \E t \in Types, resp \in Responses : getDataSettles(t, resp)
    \/ \E k \in HostLists : hostRendersList(k)
    \/ \E cls \in {PlainClass, Top250Class} : hostAppendsChild(cls)
    \/ \E nodes \in NodeBatches : hostMutatesElsewhere(nodes)

Spec == Init /\ [][Next]_vars

\* The fetches settle and the load event fires; nothing makes the host page
\* mutate the document again.
LiveSpec ==
    /\ Init /\ [][Next]_vars
    /\ WF_vars(loadListener)
    /\ \A t \in Types : WF_vars(\E resp \in Responses : getDataSettles(t, resp))

\* The listener run a second time on a page the first run has annotated:
\* its fetches have settled and its observers have disconnected.
secondPass ==
    /\ pass = "first"
    /\ \A t \in Types : fetch[t] # "inflight"
    /\ \A i \in 1..Len(instances) : ~instances[i].attached
    /\ pass' = "second"
    /\ listenerBody
    /\ UNCHANGED <<posterAttr, instances, container, children, flexWrap, pureVars, actorVars, progressVars>>

TwiceNext == Next \/ secondPass

TwiceSpec == Init /\ [][TwiceNext]_vars

PureInit ==
    /\ call \in PureCalls \cup CallbackCalls
    /\ result = NoResult
    /\ posterAttr = [element |-> FALSE]
    /\ pass = "none"
    /\ id = Undefined
    /\ fetch = [t \in Types |-> "idle"]
    /\ instances = <<>>
    /\ container = FALSE
    /\ children = <<>>
    /\ flexWrap = FALSE
    /\ ActorIdle /\ ProgressIdle

PureSpec == PureInit /\ [][PureNext \/ CallObserverCallback]_vars

(***************************************************************************)
(* getActors: the actor icons.  A name is the sequence of its code points; *)
(* U+00E9 (e with acute) is canonically equivalent to U+0065 U+0301.       *)
(***************************************************************************)
ActorNames == {<<"U+0041">>, <<"U+00E9">>, <<"U+0065", "U+0301">>}

\* String.prototype.normalize('NFC'): canonical composition.
RECURSIVE normalize(_)
normalize(str) ==
    IF Len(str) < 2 THEN str
    ELSE IF str[1] = "U+0065" /\ str[2] = "U+0301"
         THEN <<"U+00E9">> \o normalize(SubSeq(str, 3, Len(str)))
    ELSE <<str[1]>> \o normalize(Tail(str))

\* element.textContent: the name the anchor displays, followed by the text
\* of whatever was appended to it (the rank of an icon).
RECURSIVE iconsText(_)
iconsText(icons) ==
    IF icons = <<>> THEN <<>>
    ELSE Digits(Head(icons).text) \o iconsText(Tail(icons))
textContent(anchor) == anchor.name \o iconsText(anchor.icons)

\* Array.prototype.indexOf: the first index of an element strictly equal
\* to x, -1 when there is none.  Position p holds JavaScript index p - 1.
indexOf(array, x) ==
    IF \E p \in 1..Len(array) : array[p] = x
    THEN (CHOOSE p \in 1..Len(array) :
            array[p] = x /\ \A q \in 1..(p - 1) : array[q] # x) - 1
    ELSE -1

ActorDatasets == UNION {[1..n -> {[actor |-> a] : a \in ActorNames}] : n \in 0..MaxLen}
ActorResponses ==
    {[network |-> "error"]}
    \cup {[network |-> "ok", json |-> j] : j \in {"malformed", "object"}}
    \cup {[network |-> "ok", json |-> "array", out |-> d] : d \in ActorDatasets}

AnchorLists ==
    UNION {[1..n -> {[name |-> a, icons |-> <<>>] : a \in ActorNames}] :
             n \in 0..MaxAnchors}

\* out.find(function(item){ top1000Actors.push(String(item.actor)) }): the
\* callback returns nothing, so every item is pushed.
pushed(out) == [p \in 1..Len(out) |-> out[p].actor]

\* The body of forEach passing position, not position + 1, as the rank.
forEachBodyZeroBased(element, names) ==
    LET position == indexOf(names, normalize(textContent(element)))
    IN  IF position >= 0
        THEN [element EXCEPT
                !.icons = Append(@, actorElement(position, actorParameters))]
        ELSE element

\* The body of castAnchors.forEach for one anchor.
forEachBody(element, names) ==
    LET position == indexOf(names, normalize(textContent(element)))
    IN  IF position >= 0
        THEN \* addActorIcon(element, position + 1, parameters)
             [element EXCEPT
                !.icons = Append(@, actorElement(position + 1, actorParameters))]
        ELSE element

\* forEach over the live anchors of the page, not over castAnchors.
visitedLive(snapshot, live) == DOMAIN live
\* castAnchors.forEach visits the anchors querySelectorAll returned when
\* getActors was called: a NodeList that does not follow the document.
visited(snapshot, live) == snapshot

\* getActors(json_link) up to the fetch: line 47 of the load listener.
getActorsCalled ==
    /\ castAnchors' = [called |-> TRUE, nodes |-> DOMAIN anchors]
    /\ actorFetch' = "inflight"
    /\ UNCHANGED <<anchors, top1000Actors>>

\* The load listener on a page with cast anchors: it reads the film id,
\* starts the fetches of getData and calls getActors; with no .film-poster
\* element its first line throws and getActors is never called.
loadListenerActors ==
    /\ pass = "none"
    /\ pass' = "first"
    /\ listenerBody
    /\ IF posterAttr.element THEN getActorsCalled ELSE UNCHANGED actorVars
    /\ UNCHANGED <<posterAttr, instances, container, children, flexWrap,
                   pureVars, progressVars>>

\* getActors' fetch(json_link).then(res => res.json()).then((out) => {...}).
getActorsSettles(resp) ==
    /\ actorFetch = "inflight"
    /\ IF resp.network = "ok" /\ resp.json = "array"
       THEN LET names == top1000Actors \o pushed(resp.out)
            IN  /\ top1000Actors' = names
                /\ anchors' = [a \in DOMAIN anchors |->
                                 IF a \in visited(castAnchors.nodes, anchors)
                                 THEN forEachBody(anchors[a], names)
                                 ELSE anchors[a]]
                /\ actorFetch' = "fulfilled"
       ELSE /\ actorFetch' = "rejected"
            /\ UNCHANGED <<anchors, top1000Actors>>
    /\ UNCHANGED <<castAnchors, pageVars, pureVars, progressVars>>

\* The host page adds a cast anchor (the cast list is completed later).
hostAddsCastAnchor(name) ==
    /\ Len(anchors) < MaxAnchors
    /\ anchors' = Append(anchors, [name |-> name, icons |-> <<>>])
    /\ UNCHANGED <<castAnchors, top1000Actors, actorFetch,
                   pageVars, pureVars, progressVars>>

ActorInit ==
    /\ posterAttr \in PosterAttrs
    /\ pass = "none"
    /\ id = Undefined
    /\ fetch = [t \in Types |-> "idle"]
    /\ instances = <<>>
    /\ container = FALSE /\ children = <<>> /\ flexWrap = FALSE
    /\ call = NoCall /\ result = NoResult
    /\ anchors \in AnchorLists
    /\ castAnchors = [called |-> FALSE]
    /\ top1000Actors = <<>>
    /\ actorFetch = "idle"
    /\ ProgressIdle

ActorNext ==
    \/ loadListenerActors
    \/ \E resp \in ActorResponses : getActorsSettles(resp)
    \/ \E name \in ActorNames : hostAddsCastAnchor(name)

ActorSpec == ActorInit /\ [][ActorNext]_vars

(***************************************************************************)
(* List progress (src/add_list_progress.js): every two seconds the script  *)
(* marks the list links it has not seen, loads the progress panel of each  *)
(* and puts a bar after the link.                                          *)
(***************************************************************************)
MaxLinks == 2

LinkClasses == {"list-link", "poster-list-link"}

\* A list link of the page as the host renders it: not marked, no request
\* sent, no bar after it.  late records whether a timer was already running
\* when the link appeared.
newLink(class) ==
    [class |-> class, checked |-> FALSE, sent |-> 0, request |-> "none",
     bars |-> 0, noMargin |-> FALSE, late |-> FALSE]

LinkLists == UNION {[1..n -> {newLink(c) : c \in LinkClasses}] : n \in 0..MaxLinks}

\* What $where.load(link + " .progress-panel", ...) hands to its callback:
\* the status, whether the loaded fragment has a .progress-percentage with
\* text, and whether its .progress-count text matches /of\s+([0-9,]+)/i.
\* Without a successful response the fragment is empty.
LoadResponses ==
    {[status |-> st, percentage |-> FALSE, total |-> FALSE] :
        st \in {"error", "timeout"}}
    \cup {[status |-> "success", percentage |-> pc, total |-> t] :
        pc \in BOOLEAN, t \in BOOLEAN}

\* isListsPage(): a .list-link on the page, or one of the tests of the
\* address and of the page's other elements (listsPath).
isListsPage(ls) ==
    LET hasListLinks == \E l \in DOMAIN ls : ls[l].class = "list-link"
    IN  hasListLinks \/ listsPath

\* Every link again, marked or not (at most one more request each).
listLinksAll(ls) == {l \in DOMAIN ls : ls[l].sent < 2}

\* The selector without its .poster-list-link part.
listLinksListOnly(ls) ==
    {l \in DOMAIN ls : ls[l].class = "list-link" /\ ~ls[l].checked}

\* $(".poster-list-link:not(.lf-checked), .list-link:not(.lf-checked)")
listLinks(ls) == {l \in DOMAIN ls : ~ls[l].checked}

\* passByLists(): each selected link is marked lf-checked and its progress
\* panel is requested.
passByLists(ls) ==
    [l \in DOMAIN ls |->
        IF l \in listLinks(ls)
        THEN [ls[l] EXCEPT !.checked = TRUE, !.sent = @ + 1,
                           !.request = "inflight"]
        ELSE ls[l]]

\* The callback with a failed request taking the mark off the link again.
loadCallbackRetries(self, resp) ==
    IF resp.status = "error"
    THEN [self EXCEPT !.request = "error", !.checked = FALSE]
    ELSE IF ~resp.percentage \/ ~resp.total
    THEN [self EXCEPT !.request = "nopanel"]
    ELSE [self EXCEPT !.request = "rendered", !.bars = @ + 1,
                      !.noMargin = TRUE]

\* The callback of $where.load for the link $self.
loadCallback(self, resp) ==
    IF resp.status = "error"
    THEN [self EXCEPT !.request = "error"]
    ELSE IF ~resp.percentage
    THEN [self EXCEPT !.request = "nopanel"]
    ELSE IF ~resp.total
    THEN [self EXCEPT !.request = "nopanel"]
    ELSE \* $self.after($progress).addClass("lf-no-margin")
         [self EXCEPT !.request = "rendered", !.bars = @ + 1,
                      !.noMargin = TRUE]

\* initializeScript()
initializeScript ==
    IF isListsPage(links)
    THEN /\ links' = passByLists(links)
         /\ intervals' = intervals + 1
    ELSE UNCHANGED <<links, intervals>>

\* The script's top level: lines 130-136.
scriptRuns ==
    /\ ~script.run
    /\ IF readyState = "loading"
       THEN /\ script' = [run |-> TRUE, listeners |-> {"DOMContentLoaded", "load"}]
            /\ UNCHANGED <<links, intervals>>
       ELSE /\ script' = [run |-> TRUE, listeners |-> {"load"}]
            /\ initializeScript
    /\ UNCHANGED <<readyState, listsPath, pageVars, pureVars, actorVars>>

\* The document has been parsed: DOMContentLoaded is dispatched.
domContentLoaded ==
    /\ readyState = "loading"
    /\ readyState' = "interactive"
    /\ IF "DOMContentLoaded" \in script.listeners
       THEN initializeScript
       ELSE UNCHANGED <<links, intervals>>
    /\ UNCHANGED <<script, listsPath, pageVars, pureVars, actorVars>>

\* The page has loaded: the load event is dispatched.
loadEvent ==
    /\ readyState = "interactive"
    /\ readyState' = "complete"
    /\ IF "load" \in script.listeners
       THEN initializeScript
       ELSE UNCHANGED <<links, intervals>>
    /\ UNCHANGED <<script, listsPath, pageVars, pureVars, actorVars>>

\* One of the timers set by setInterval fires.
tick ==
    /\ intervals > 0
    /\ links' = passByLists(links)
    /\ UNCHANGED <<readyState, script, intervals, listsPath,
                   pageVars, pureVars, actorVars>>

\* The request sent for link l completes and its callback runs.
loadCompletes(l, resp) ==
    /\ l \in DOMAIN links
    /\ links[l].request = "inflight"
    /\ links' = [links EXCEPT ![l] = loadCallback(links[l], resp)]
    /\ UNCHANGED <<readyState, script, intervals, listsPath,
                   pageVars, pureVars, actorVars>>

\* The host page shows one more list link.
hostAddsLink(class) ==
    /\ Len(links) < MaxLinks
    /\ links' = Append(links, [newLink(class) EXCEPT !.late = intervals > 0])
    /\ UNCHANGED <<readyState, script, intervals, listsPath,
                   pageVars, pureVars, actorVars>>

ProgressInit ==
    /\ posterAttr = [element |-> FALSE]
    /\ pass = "none"
    /\ id = Undefined
    /\ fetch = [t \in Types |-> "idle"]
    /\ instances = <<>>
    /\ container = FALSE /\ children = <<>> /\ flexWrap = FALSE
    /\ call = NoCall /\ result = NoResult
    /\ ActorIdle
    /\ readyState = "loading"
    /\ script = [run |-> FALSE, listeners |-> {}]
    /\ intervals = 0
    /\ links \in LinkLists
    /\ listsPath \in BOOLEAN

ProgressNext ==
    \/ scriptRuns
    \/ domContentLoaded
    \/ loadEvent
    \/ tick
    \/ \E l \in 1..MaxLinks, resp \in LoadResponses : loadCompletes(l, resp)
    \/ \E class \in LinkClasses : hostAddsLink(class)

ProgressSpec == ProgressInit /\ [][ProgressNext]_vars

\* setInterval keeps calling its callback every two seconds: a tick that
\* has something to do is not postponed for ever.
ProgressLiveSpec == ProgressInit /\ [][ProgressNext]_vars /\ WF_vars(tick)

(***************************************************************************)
(* Vocabulary of the properties.                                           *)
(***************************************************************************)
\* The entries of a dataset that carry the key k, in either field.
OccurrencesOf(out, k) ==
    {p \in 1..Len(out) : out[p].Date = k \/ out[p].id = k}

BuilderOps == {"createTop250Element", "addIcon", "addActorIcon"}

\* The list URL a builder call links to, without the page number.
linkPrefix(c) ==
    IF c.op = "createTop250Element"
    THEN "/el_duderinno/list/letterboxds-top-2000-narrative-feature-films-1/page/"
    ELSE IF c.op = "addIcon" THEN parameters(c.type).list
    ELSE actorParameters.list

\* The page of a list of PageSize items a page that holds the item of rank r.
listPageOf(r) == ((r - 1) \div PageSize) + 1

Built == call.op \in BuilderOps /\ result.done

\* The places of the i-th call's element among the children of the list.
positionsOf(i) ==
    {p \in 1..Len(children) : children[p].by = "script" /\ children[p].n = i}
Mounted(i) == positionsOf(i) # {}
Attached(i) == instances[i].attached
Pending(i) == Attached(i) /\ ~Mounted(i)
ListReady == container /\ divCount(children) > 1

\* The calls made for category t, and the elements of category t in the list.
callsOf(t) == {i \in 1..Len(instances) : instances[i].type = t}
badgesOf(t) ==
    {p \in 1..Len(children) :
        children[p].by = "script" /\ instances[children[p].n].type = t}

(***************************************************************************)
(* C1. A film identifier that occurs exactly once in a dataset, at         *)
(* zero-based index i, makes getData build exactly one badge, of that      *)
(* category, and the rank the badge displays is i + 1.                     *)
(***************************************************************************)
C1_RankIsIndexPlusOne ==
    (call.op = "getData" /\ result.done) =>
        \A p \in 1..Len(call.out) :
            OccurrencesOf(call.out, call.id) = {p} =>
                LET i == p - 1
                IN  /\ Len(result.built) = 1
                    /\ result.built[1].text = i + 1
                    /\ result.calls[1].fn
                         = (IF call.type = CrownType THEN "addCrown" ELSE "addIcon")
                    /\ call.type # CrownType
                         => result.calls[1].parameters = parameters(call.type)

C1_Witness ==
    /\ call.op = "getData" /\ result.done
    /\ Len(call.out) = 2
    /\ OccurrencesOf(call.out, call.id) = {2}
    /\ Len(result.built) = 1 /\ result.built[1].text = 2

(***************************************************************************)
(* C2. The page number in a badge's link is the page, of a list paginated  *)
(* PageSize items a page, that holds the item of the badge's rank.         *)
(***************************************************************************)
C2_LinkLeadsToThePageOfTheRank ==
    Built => result.element.href
                = linkPrefix(call) \o ToString(listPageOf(call.ranking))

(***************************************************************************)
(* C3. Every rank from 1 to 100, the rank 100 included, is given page 1.   *)
(***************************************************************************)
C3_FirstHundredOnPageOne ==
    (Built /\ call.ranking \in 1..PageSize) =>
        result.element.href = linkPrefix(call) \o "1"

(***************************************************************************)
(* C4. The page computed for a badge of rank r is floor(r / 100) + 1:      *)
(* rank 101 gives page 2, rank 150 page 2 and rank 200 page 3.             *)
(***************************************************************************)
C4_PageIsFloorPlusOne ==
    Built =>
        /\ result.element.href
             = linkPrefix(call) \o ToString((call.ranking \div PageSize) + 1)
        /\ call.ranking \in {101, 150} => result.element.href = linkPrefix(call) \o "2"
        /\ call.ranking = 200 => result.element.href = linkPrefix(call) \o "3"

C4_Witness ==
    /\ Built /\ call.op = "addIcon" /\ call.ranking = 150
    /\ result.element.href = parameters(call.type).list \o "2"

(***************************************************************************)
(* C5. During one page load, a category whose dataset lists the film at    *)
(* most once (getData then makes at most one call for it) never has more   *)
(* than one badge in the list.                                             *)
(***************************************************************************)
C5_OneBadgePerCategory ==
    \A t \in Types :
        Cardinality(callsOf(t)) <= 1 => Cardinality(badgesOf(t)) <= 1

C5_Witness ==
    /\ Len(instances) = 2
    /\ instances[1].type # instances[2].type
    /\ Mounted(1) /\ Mounted(2)
    /\ \A t \in Types : fetch[t] # "inflight"

(***************************************************************************)
(* C6. A second run of the annotation pass on a page the first run has     *)
(* annotated, with the film at the same rank of the same category, adds    *)
(* no second badge of that category.                                       *)
(***************************************************************************)
C6_SecondPassAddsNoBadge ==
    \A i, j \in 1..Len(instances) :
        (/\ instances[i].pass = "first" /\ instances[j].pass = "second"
         /\ instances[i].type = instances[j].type
         /\ instances[i].ranking = instances[j].ranking
         /\ Mounted(i))
        => ~Mounted(j)

(***************************************************************************)
(* C7. An instance's badge is in the list at most once, and once it is     *)
(* there no later step inserts it again: it stays where it is whatever     *)
(* the host page adds to the list or to the document.                      *)
(***************************************************************************)
C7_InsertsAtMostOnce ==
    [][\A i \in 1..Len(instances') :
          /\ Cardinality(positionsOf(i)') <= 1
          /\ (i <= Len(instances) /\ Mounted(i)) => positionsOf(i)' = positionsOf(i)]_vars

C7_Witness ==
    \E i \in 1..Len(instances) :
        /\ instances[i].fn = "addIcon"
        /\ Mounted(i)
        /\ \E p \in positionsOf(i) : p < Len(children) /\ children[Len(children)].by = "host"

(***************************************************************************)
(* C8. A flag-icon badge built while the list is ready, or before it is,   *)
(* is eventually inserted.                                                 *)
(***************************************************************************)
C8_BuiltBadgeIsEventuallyMounted ==
    \A i \in 1..MaxInst :
        (i <= Len(instances) /\ instances[i].fn = "addIcon" /\ ListReady)
            ~> Mounted(i)

(***************************************************************************)
(* C9. An instance goes from PENDING to MOUNTED to disconnected: none is   *)
(* disconnected without its badge in the list, none returns to PENDING.    *)
(***************************************************************************)
NoReturnToPending ==
    \A i \in 1..Len(instances) : ~Pending(i) => ~Pending(i)'

C9_PendingMountedDisconnected ==
    [][/\ \A i \in 1..Len(instances') : ~Attached(i)' => Mounted(i)'
       /\ NoReturnToPending]_vars

\* C9 as amended: a crown instance also disconnects without inserting when
\* the list is ready and an element of class -top250 is already there.
C9_DisconnectsMountedOrCrownSkipped ==
    [][/\ \A i \in 1..Len(instances') :
            ~Attached(i)' =>
                \/ Mounted(i)'
                \/ /\ instances'[i].fn = "addCrown"
                   /\ top250Count(children') > 0
       /\ NoReturnToPending]_vars

C9_Witness ==
    \E i, j \in 1..Len(instances) :
        /\ instances[i].fn = "addCrown" /\ ~Attached(i) /\ ~Mounted(i)
        /\ instances[j].fn = "addIcon" /\ ~Attached(j) /\ Mounted(j)

(***************************************************************************)
(* C10. The step that puts an instance's badge in the list leaves its      *)
(* observer disconnected, and a disconnected observer stays disconnected.  *)
(***************************************************************************)
C10_DisconnectsOnInsertForGood ==
    [][\A i \in 1..Len(instances') :
          /\ Mounted(i)' => ~Attached(i)'
          /\ (i <= Len(instances) /\ ~Attached(i)) => ~Attached(i)']_vars

C10_Witness ==
    /\ Len(instances) = 2
    /\ Mounted(1) /\ ~Attached(1)
    /\ Attached(2) /\ container
    /\ instances[2].fn = "addCrown"

(***************************************************************************)
(* C18. A film identifier that occurs in no entry of the dataset builds    *)
(* no badge and registers no observer: getData calls neither addCrown nor  *)
(* addIcon.                                                                *)
(***************************************************************************)
C18_AbsentKeyBuildsNothing ==
    (call.op = "getData" /\ result.done /\ OccurrencesOf(call.out, call.id) = {})
        => result.calls = <<>> /\ result.built = <<>>

C18_Witness ==
    /\ call.op = "getData" /\ result.done
    /\ Len(call.out) = 2 /\ call.id = Num(10)
    /\ \A p \in 1..2 : call.out[p].Date = Undefined /\ call.out[p].id = Num(20)
    /\ result.calls = <<>>

(***************************************************************************)
(* C19. A film identifier that occurs at several indices of a dataset      *)
(* builds a single badge, showing the smallest matching rank.              *)
(***************************************************************************)
C19_OnlyFirstMatchBuildsABadge ==
    (call.op = "getData" /\ result.done
     /\ Cardinality(OccurrencesOf(call.out, call.id)) > 1)
        => /\ Len(result.built) = 1
           /\ \A p \in OccurrencesOf(call.out, call.id) : result.built[1].text <= p

(***************************************************************************)
(* C20. An entry matches when its Date field or its id field equals the    *)
(* film identifier: exactly the matching entries build a badge, and the    *)
(* dataset of the ids 10, 20, 30 looked up with 20 gives rank 2, page 1.   *)
(***************************************************************************)
C20_DateOrIdMatches ==
    (call.op = "getData" /\ result.done) =>
        /\ Len(result.built) = Cardinality(OccurrencesOf(call.out, call.id))
        /\ \A n \in 1..Len(result.built) :
               result.built[n].text \in OccurrencesOf(call.out, call.id)
        /\ (call.out = IdKeyedDataset /\ call.id = Num(20)) =>
               /\ Len(result.built) = 1
               /\ result.built[1].text = 2
               /\ result.built[1].href
                    = linkPrefix([op |-> IF call.type = CrownType
                                         THEN "createTop250Element" ELSE "addIcon",
                                  type |-> call.type]) \o "1"

C20_Witness ==
    /\ call.op = "getData" /\ result.done
    /\ call.out = IdKeyedDataset /\ call.id = Num(20) /\ call.type = 2
    /\ Len(result.built) = 1 /\ result.built[1].text = 2

(***************************************************************************)
(* C15. A dataset fetch that fails (network error, response of             *)
(* non-success status, malformed JSON) ends in a handled failure: no       *)
(* category's promise chain is left rejected with nothing handling it.     *)
(***************************************************************************)
C15_NoUnhandledRejection ==
    \A t \in Types : fetch[t] # "rejected"

(***************************************************************************)
(* C16. A response of non-success status builds no badge, whatever its     *)
(* body contains.                                                          *)
(***************************************************************************)
C16_NonSuccessBuildsNothing ==
    (call.op = "fetch" /\ result.done
     /\ call.resp.network = "ok" /\ ~call.resp.ok)
        => result.calls = <<>> /\ result.built = <<>>

(***************************************************************************)
(* C17. When the film identifier cannot be read at page load, the element  *)
(* that bears it or its data attribute being absent, the pass is aborted:  *)
(* no dataset is fetched and no badge is built.                            *)
(***************************************************************************)
IdentifierUnreadable ==
    IF posterAttr.element THEN posterAttr.attr = Null ELSE TRUE

C17_NoIdentifierNoFetch ==
    (pass # "none" /\ IdentifierUnreadable) =>
        /\ \A t \in Types : fetch[t] = "idle"
        /\ instances = <<>>

C12_NoListNoInsertStaysAttached ==
    ~container =>
        /\ children = <<>>
        /\ \A i \in 1..Len(instances) : Attached(i) /\ ~Mounted(i)

C12_Witness ==
    /\ ~container
    /\ \A t \in Types : fetch[t] \notin {"idle", "inflight"}
    /\ Len(instances) = 2
    /\ instances[1].fn = "addCrown" /\ instances[2].fn = "addIcon"
    /\ Attached(1) /\ Attached(2)
    /\ ENABLED (\E nodes \in NodeBatches : hostMutatesElsewhere(nodes))

(***************************************************************************)
(* C11. Every batch delivered to a pending instance, whatever its records, *)
(* makes the instance check the list, and the instance inserts in the      *)
(* first batch delivered while the list exists and is ready (the crown     *)
(* giving way to an element of class -top250, as in C13).                  *)
(***************************************************************************)
CallbackDone == call.op = "observerCallback" /\ result.done
CallbackListReady == call.container /\ divCount(call.children) > 1
CallbackHasElement == \E n \in 1..Len(call.nodes) : call.nodes[n] = "element"
CallbackInserted ==
    /\ \E p \in 1..Len(result.st.children) :
           result.st.children[p] = callbackNode(call)
    /\ ~result.st.attached
CallbackCrownGaveWay ==
    /\ call.fn = "addCrown" /\ top250Count(call.children) > 0
    /\ result.st.children = call.children
    /\ ~result.st.attached
CallbackDidNothing ==
    /\ result.st.children = call.children
    /\ result.st.attached
    /\ ~result.st.flexWrap /\ ~result.st.threw

C11_EveryBatchChecksAndInserts ==
    (CallbackDone /\ CallbackListReady)
        => CallbackInserted \/ CallbackCrownGaveWay

\* C11 as amended: only a batch that adds at least one element node makes
\* the instance check; such a batch, delivered while the list exists and is
\* ready, makes it insert, and delivered before that leaves it pending; a
\* batch that adds no element node does nothing at all.
C11_ElementBatchChecksAndInserts ==
    CallbackDone =>
        /\ (CallbackHasElement /\ CallbackListReady)
              => CallbackInserted \/ CallbackCrownGaveWay
        /\ (CallbackHasElement /\ ~CallbackListReady)
              => /\ result.st.children = call.children
                 /\ result.st.attached
                 /\ result.st.threw = ~call.container
        /\ ~CallbackHasElement => CallbackDidNothing

C11_Witness ==
    /\ CallbackDone /\ CallbackListReady
    /\ call.fn = "addIcon"
    /\ call.nodes = <<"text", "element">>
    /\ CallbackInserted

(***************************************************************************)
(* C14. After the fetch or the parse of one category has failed, every     *)
(* other category whose dataset lists the film still builds its badge when *)
(* its own fetch completes, in whatever order the fetches complete, and    *)
(* its pending badge is mounted by the next change of the list that        *)
(* leaves the list ready (the crown giving way to a -top250 element).      *)
(***************************************************************************)
AnotherFailed(t) == \E u \in Types \ {t} : fetch[u] = "rejected"

settlesWithBadge(t) ==
    \E resp \in Responses :
        getDataSettles(t, resp) /\ Len(instances') > Len(instances)

C24_FlagIconBadgeIsBuiltFromItsInputs ==
    (call.op = "addIcon" /\ result.done) =>
        /\ result.element.href
             = parameters(call.type).list
               \o ToString((call.ranking \div PageSize) + 1)
        /\ result.element.img.src = parameters(call.type).icon
        /\ result.element.img.attributes = parameters(call.type).size
        /\ result.element.text = call.ranking
        /\ ~container /\ children = <<>> /\ ~flexWrap /\ instances = <<>>

C24_Witness ==
    /\ call.op = "addIcon" /\ result.done
    /\ call.type = NumRegistered /\ call.ranking = 250
    /\ result.element.text = 250
    /\ result.element.img.attributes = [height |-> "16", width |-> "16"]

(***************************************************************************)
(* C26. The attached observers are the observers of the instances that     *)
(* have neither inserted their badge nor skipped it: a flag-icon observer  *)
(* is attached exactly while its badge is not in the list, a crown         *)
(* observer is never attached once its badge is in the list.               *)
(***************************************************************************)
C26_AttachedObserversArePending ==
    \A i \in 1..Len(instances) :
        /\ Attached(i) => ~Mounted(i)
        /\ (instances[i].fn = "addIcon" /\ ~Attached(i)) => Mounted(i)

C26_Witness ==
    /\ Len(instances) = 2
    /\ instances[1].fn = "addIcon" /\ Mounted(1) /\ ~Attached(1)
    /\ instances[2].fn = "addIcon" /\ Attached(2) /\ ~Mounted(2)

(***************************************************************************)
(* C27. Every step leaves the children the list had where they were, in    *)
(* the same order, the badges other instances mounted included: whatever   *)
(* is added comes after them.                                              *)
(***************************************************************************)
C27_ChildrenAreOnlyAppended ==
    [][/\ Len(children') >= Len(children)
       /\ SubSeq(children', 1, Len(children)) = children]_vars

C27_Witness ==
    /\ Len(children) >= 4
    /\ children[1].by = "host" /\ children[2].by = "host"
    /\ children[Len(children) - 1].by = "script"
    /\ children[Len(children)].by = "script"
    /\ children[Len(children) - 1].n = 1

(***************************************************************************)
(* C28. A callback inserts its badge only into a list that is in the       *)
(* document and had more than one entry when the callback ran.             *)
(***************************************************************************)
CallbackNodeCount ==
    Cardinality({p \in 1..Len(result.st.children) :
                    result.st.children[p] = callbackNode(call)})

C28_InsertsOnlyIntoAReadyList ==
    (CallbackDone /\ CallbackNodeCount > 0)
        => call.container /\ Len(call.children) > 1

C28_Witness ==
    /\ CallbackDone /\ call.fn = "addCrown"
    /\ Len(call.children) = 2
    /\ CallbackNodeCount = 1

(***************************************************************************)
(* C29. After a callback on a batch of several added element nodes,        *)
(* delivered while the list is ready, the list holds exactly one copy of   *)
(* the instance's badge.                                                   *)
(***************************************************************************)
CallbackSeveralElements ==
    Cardinality({n \in 1..Len(call.nodes) : call.nodes[n] = "element"}) > 1

C29_OneCopyAfterSeveralNodes ==
    (CallbackDone /\ CallbackListReady /\ CallbackSeveralElements)
        => CallbackNodeCount = 1

\* C29 as amended: the crown instance leaves no copy when an element of
\* class -top250 was in the list already.
C29_OneCopyUnlessCrownGaveWay ==
    (CallbackDone /\ CallbackListReady /\ CallbackSeveralElements)
        => IF call.fn = "addCrown" /\ top250Count(call.children) > 0
           THEN CallbackNodeCount = 0
           ELSE CallbackNodeCount = 1

C29_Witness ==
    /\ CallbackDone /\ CallbackListReady
    /\ call.nodes = <<"element", "element">>
    /\ call.fn = "addCrown" /\ top250Count(call.children) = 0
    /\ CallbackNodeCount = 1 /\ ~result.st.attached

(***************************************************************************)
(* C21. Once the actor dataset has been looked up, a cast anchor whose     *)
(* displayed name, normalized as the lookup normalizes it, is the dataset  *)
(* name at zero-based index i (the first such index) holds exactly one     *)
(* icon, showing rank i + 1 and linking to the page of that rank, and an   *)
(* anchor whose name is not in the dataset holds none.                     *)
(***************************************************************************)
FirstPosition(names, x) ==
    CHOOSE p \in 1..Len(names) : names[p] = x /\ \A q \in 1..(p - 1) : names[q] # x

C22_MatchIsNormalizedEquality ==
    actorFetch = "fulfilled" =>
        \A a \in castAnchors.nodes :
            (anchors[a].icons # <<>>)
                <=> \E p \in 1..Len(top1000Actors) :
                       normalize(top1000Actors[p]) = normalize(anchors[a].name)

(***************************************************************************)
(* C23. Only the cast anchors that were on the page when getActors was     *)
(* called ever hold an icon: an anchor added afterwards holds none.        *)
(***************************************************************************)
C23_OnlySnapshotAnchorsGetIcons ==
    \A a \in DOMAIN anchors :
        anchors[a].icons # <<>> => castAnchors.called /\ a \in castAnchors.nodes

C23_Witness ==
    /\ actorFetch = "fulfilled"
    /\ Len(anchors) = 2
    /\ castAnchors.nodes = {1}
    /\ anchors[1].icons # <<>>
    /\ anchors[2].name = anchors[1].name
    /\ anchors[2].icons = <<>>

(***************************************************************************)
(* C25. No retry: a list link whose request failed, or whose response had  *)
(* no usable progress panel, was requested once, has no bar, and no later  *)
(* step (poll tick or initialization) changes it.                          *)
(***************************************************************************)
LinkFailed(link) == link.request \in {"error", "nopanel"}

C25_FailedLinkIsLeftAlone ==
    [][\A l \in DOMAIN links :
          LinkFailed(links[l]) =>
              /\ links[l].sent = 1 /\ links[l].bars = 0
              /\ links'[l] = links[l]]_vars

C25_Witness ==
    /\ intervals > 0
    /\ Len(links) = 2
    /\ links[1].request = "error" /\ links[1].bars = 0
    /\ links[2].request = "rendered"

(***************************************************************************)
(* C30. However many timers tick and however often initialization runs,    *)
(* each list link has been sent at most one request and has at most one    *)
(* progress bar.                                                           *)
(***************************************************************************)
C30_OneRequestOneBarPerLink ==
    \A l \in DOMAIN links : links[l].sent <= 1 /\ links[l].bars <= 1

C30_Witness ==
    /\ intervals = 2
    /\ readyState = "complete"
    /\ Len(links) = 2
    /\ \A l \in DOMAIN links :
          /\ links[l].request = "rendered"
          /\ links[l].sent = 1 /\ links[l].bars = 1

(***************************************************************************)
(* C31. One page load starts at most one polling timer, whichever of the   *)
(* immediate call, DOMContentLoaded and load runs the initialization.      *)
(***************************************************************************)
C31_AtMostOneTimer == intervals <= 1

(***************************************************************************)
(* C32. Once polling has started, a list link that appears on the page     *)
(* afterwards is eventually marked as checked and has been sent its        *)
(* request.                                                                *)
(***************************************************************************)
C32_LateLinkIsEventuallyRequested ==
    \A l \in 1..MaxLinks :
        (l \in DOMAIN links /\ links[l].late)
            ~> (l \in DOMAIN links /\ links[l].checked /\ links[l].sent = 1)

C32_Witness ==
    /\ intervals > 0
    /\ \E l \in DOMAIN links :
          /\ links[l].late /\ links[l].class = "poster-list-link"
          /\ links[l].checked /\ links[l].sent = 1

====
